---- MODULE Spec2Model ----
(***************************************************************************)
(* Model of package pw (src/pw/pw.go): a password store kept as one file   *)
(* encrypted by the external scrypt utility.                               *)
(*                                                                         *)
(* A Go string is a sequence of units.  A unit is either a valid UTF-8     *)
(* character ("a", "b", "u", "p", "q", and "uFFFD" for the replacement     *)
(* rune U+FFFD) or the byte "xFF", which is not valid UTF-8.               *)
(*                                                                         *)
(* The entry at the store's path is fsys = [kind, content, mode]:          *)
(*   kind    "none" (nothing there), "file", "dir", or "denied" (the path  *)
(*           cannot be examined: os.Stat fails with an error other than    *)
(*           fs.ErrNotExist, and the delegate cannot open it either);      *)
(*   content the plaintext scrypt dec yields for the file, as a JSON       *)
(*           document, or Corrupt when scrypt dec cannot decrypt the file; *)
(*   mode    the permission bits, 0..511.                                  *)
(* The outcome of everything outside the package (the scrypt subprocess,   *)
(* the pipe, os.Chmod) is an input env of each invocation.                 *)
(***************************************************************************)
EXTENDS Integers, Sequences, FiniteSets, TLC

\* Largest number of records the store is grown to.
MaxLen == 3

\* os.Chmod(filename, 0600): octal 0600.
OwnerRW == 384

NoErr == "nil"

---------------------------------------------------------------------------
\* Inputs

NameInputs == {<<"a">>, <<"b">>, <<"xFF">>}
\* Names looked up or removed: also the name an invalid one is stored under.
LookupNames == NameInputs \cup {<<"uFFFD">>}
RemoveNames == {<<"a">>, <<"b">>, <<"uFFFD">>}
Filenames == {"", "pw.scrypt"}

PasswordEntry(n, u, p) == [Name |-> n, Username |-> u, Password |-> p]
\* Entries added carry a username and a password.
AddInputs == {PasswordEntry(n, <<"u">>, <<"p">>) : n \in NameInputs}
\* Entries given to Update drop the username and change the password: that of
\* "a" to one that is not valid UTF-8.
UpdateInputs ==
  {PasswordEntry(<<"a">>, <<>>, <<"xFF">>), PasswordEntry(<<"uFFFD">>, <<>>, <<"q">>)}

NoEntry == PasswordEntry(<<>>, <<>>, <<>>)

---------------------------------------------------------------------------
\* encoding/json, as used on []PasswordEntry

\* json.Marshal coerces a string to valid UTF-8: each invalid byte becomes U+FFFD.
ToValidUTF8(s) == [i \in 1..Len(s) |-> IF s[i] = "xFF" THEN "uFFFD" ELSE s[i]]

MarshalEntry(e) ==
  [name |-> ToValidUTF8(e.Name),
   username |-> ToValidUTF8(e.Username),
   password |-> ToValidUTF8(e.Password)]

\* json.Marshal(data): a JSON array of objects, in slice order.
Marshal(data) ==
  [t |-> "array", elems |-> [i \in 1..Len(data) |-> MarshalEntry(data[i])]]

JSONNull == [t |-> "null", elems |-> <<>>]
\* Plaintext that is not JSON, or JSON that is no array of objects.
NotJSON == [t |-> "garbage", elems |-> <<>>]
\* A file scrypt dec rejects (truncated, or not scrypt output).
Corrupt == [t |-> "corrupt", elems |-> <<>>]

UnmarshalEntry(o) ==
  PasswordEntry(o.name, o.username, o.password)

\* json.Unmarshal(output, &data) with data a nil slice: an array fills it, null
\* leaves it nil (len 0) without error, anything else is an error.
Unmarshal(output) ==
  CASE output.t = "array" ->
         [err |-> NoErr,
          data |-> [i \in 1..Len(output.elems) |-> UnmarshalEntry(output.elems[i])]]
    [] output.t = "null" -> [err |-> NoErr, data |-> <<>>]
    [] OTHER -> [err |-> "InvalidJSON", data |-> <<>>]

---------------------------------------------------------------------------
\* Environment of one invocation

\* scrypt dec: runs and exits 0, exits non-zero, or cannot be started.
DecOutcomes == {"ok", "exit", "start"}
\* scrypt enc: "pipe" StdinPipe fails, "start" Start fails, "write" writing the
\* plaintext to the pipe fails, "exit" Wait returns an ExitError, "wait" Wait
\* returns another error, "ok" exits 0.
EncOutcomes == {"ok", "pipe", "start", "write", "exit", "wait"}
\* Modes the delegate creates a file with: 0666 under a umask of 022 (octal
\* 0644).  keep: it rewrites an existing file, which keeps its mode.
CreateModes == {420}

Envs ==
  {e \in [dec : DecOutcomes, enc : EncOutcomes, chmod : {"ok", "fail"},
          damage : BOOLEAN, keep : BOOLEAN, cmode : CreateModes] :
     \* choices that nothing reads are fixed
     /\ (e.dec # "ok" => e.enc = "ok")
     /\ (e.enc \notin {"write", "exit"} => ~e.damage)
     /\ (e.enc # "ok" \/ e.dec # "ok" => e.chmod = "ok")
     /\ (e.chmod = "ok" => e.keep)}

\* Get and List run no encryption, Init no decryption.
ReadEnvs == {e \in Envs : e.enc = "ok" /\ e.chmod = "ok" /\ e.keep}
InitEnvs == {e \in Envs : e.dec = "ok"}

\* The environment in which nothing outside the package fails.
OkEnv ==
  [dec |-> "ok", enc |-> "ok", chmod |-> "ok", damage |-> FALSE, keep |-> TRUE,
   cmode |-> 420]

---------------------------------------------------------------------------
\* read

\* os.Stat(filename)
Stat(f) ==
  CASE f.kind = "none" -> "ErrNotExist"
    [] f.kind = "denied" -> "EACCES"
    [] f.kind = "dir" -> "dir"
    [] OTHER -> "file"

\* The checks of read without the IsDir check (mutant).
classifyNoDir(f) ==
  CASE Stat(f) = "ErrNotExist" -> "ErrPwFileNotFound"
    [] Stat(f) = "EACCES" -> "StatError"
    [] OTHER -> NoErr

\* The checks read makes before it runs the delegate.
classify(f) ==
  CASE Stat(f) = "ErrNotExist" -> "ErrPwFileNotFound"
    [] Stat(f) = "EACCES" -> "StatError"
    [] Stat(f) = "dir" -> "IsDirectory"
    [] OTHER -> NoErr

\* exec.Command("scrypt", "dec", filename).Output()
Decrypt(f, env) ==
  CASE env.dec = "start" -> [err |-> "DecStart", output |-> Corrupt, log |-> <<"dec.nostart">>]
    [] env.dec = "exit" \/ f.kind # "file" \/ f.content = Corrupt ->
         [err |-> "DecExit", output |-> Corrupt, log |-> <<"dec.start", "dec.fail">>]
    [] OTHER -> [err |-> NoErr, output |-> f.content, log |-> <<"dec.start", "dec.exit0">>]

read(f, env) ==
  IF classify(f) # NoErr
  THEN [err |-> classify(f), data |-> <<>>, log |-> <<"stat">>]
  ELSE LET d == Decrypt(f, env) IN
       IF d.err # NoErr
       THEN [err |-> d.err, data |-> <<>>, log |-> <<"stat">> \o d.log]
       ELSE LET u == Unmarshal(d.output) IN
            IF u.err # NoErr
            THEN [err |-> u.err, data |-> <<>>,
                  log |-> <<"stat">> \o d.log \o <<"unmarshal.fail">>]
            ELSE [err |-> NoErr, data |-> u.data,
                  log |-> <<"stat">> \o d.log \o <<"unmarshal">>]

---------------------------------------------------------------------------
\* write

\* The mode of a file the delegate has written.
CreatedMode(f, env) == IF f.kind = "file" /\ env.keep THEN f.mode ELSE env.cmode

\* The delegate can write the path only where a file is or can be created.
Writable(f) == f.kind \in {"none", "file"}

\* What a delegate that failed after it was started leaves at the path: the
\* entry as it was, or a file that cannot be decrypted.
Damaged(f, env) ==
  IF env.damage /\ Writable(f)
  THEN [kind |-> "file", content |-> Corrupt, mode |-> CreatedMode(f, env)]
  ELSE f

\* What scrypt enc - filename leaves at the path when it exits 0.
Encrypted(f, jsonData, env) ==
  [kind |-> "file", content |-> jsonData, mode |-> CreatedMode(f, env)]

\* os.Chmod left out (mutant).
ChmodSkipped(f, mode) == f

\* os.Chmod(filename, mode)
Chmod(f, mode) == [f EXCEPT !.mode = mode]

\* How the delegate ends: it cannot exit 0 where it cannot write the path.
EncOutcome(f, env) == IF env.enc = "ok" /\ ~Writable(f) THEN "exit" ELSE env.enc

\* write that takes a failed Wait for success (mutant).
writeIgnoringWait(f, data, env) ==
  LET jsonData == Marshal(data)
      enc == EncOutcome(f, env)
  IN CASE enc = "pipe" -> [err |-> "PipeErr", fs |-> f, log |-> <<"marshal">>]
       [] enc = "start" ->
            [err |-> "EncStart", fs |-> f, log |-> <<"marshal", "enc.nostart">>]
       [] enc = "write" ->
            [err |-> "panic", fs |-> Damaged(f, env),
             log |-> <<"marshal", "enc.start", "enc.stdin.fail", "cancel.panic">>]
       [] enc \in {"exit", "wait"} ->
            [err |-> NoErr, fs |-> Chmod(Damaged(f, env), OwnerRW),
             log |-> <<"marshal", "enc.start", "enc.stdin", "enc.close", "enc.fail">>]
       [] OTHER ->
            [err |-> NoErr, fs |-> Chmod(Encrypted(f, jsonData, env), OwnerRW),
             log |-> <<"marshal", "enc.start", "enc.stdin", "enc.close",
                       "enc.exit0", "chmod">>]

write(f, data, env) ==
  LET jsonData == Marshal(data)
      enc == EncOutcome(f, env)
  IN CASE enc = "pipe" -> [err |-> "PipeErr", fs |-> f, log |-> <<"marshal">>]
       [] enc = "start" ->
            [err |-> "EncStart", fs |-> f, log |-> <<"marshal", "enc.nostart">>]
       [] enc = "write" ->
            \* stdin.Write fails; cmd.Cancel is nil for exec.Command, so the
            \* call cmd.Cancel() panics
            [err |-> "panic", fs |-> Damaged(f, env),
             log |-> <<"marshal", "enc.start", "enc.stdin.fail", "cancel.panic">>]
       [] enc = "exit" ->
            [err |-> "EncExit", fs |-> Damaged(f, env),
             log |-> <<"marshal", "enc.start", "enc.stdin", "enc.close", "enc.fail">>]
       [] enc = "wait" ->
            [err |-> "EncWait", fs |-> Damaged(f, env),
             log |-> <<"marshal", "enc.start", "enc.stdin", "enc.close", "enc.waiterr">>]
       [] env.chmod = "fail" ->
            [err |-> "ChmodErr", fs |-> Encrypted(f, jsonData, env),
             log |-> <<"marshal", "enc.start", "enc.stdin", "enc.close",
                       "enc.exit0", "chmod.fail">>]
       [] OTHER ->
            [err |-> NoErr, fs |-> Chmod(Encrypted(f, jsonData, env), OwnerRW),
             log |-> <<"marshal", "enc.start", "enc.stdin", "enc.close",
                       "enc.exit0", "chmod">>]

---------------------------------------------------------------------------
\* The exported operations.  Each yields the error returned (NoErr for nil),
\* the value returned, the entry left at the path, and the log of what it ran.

Ret(err, val, fs, log) == [err |-> err, val |-> val, fs |-> fs, log |-> log]

\* Index of the first entry named name, 0 when there is none.
FirstIndex(data, name) ==
  IF \E i \in 1..Len(data) : data[i].Name = name
  THEN CHOOSE i \in 1..Len(data) :
         /\ data[i].Name = name
         /\ \A j \in 1..(i - 1) : data[j].Name # name
  ELSE 0

\* Init that does not look at the path first (mutant).
InitNoStat(f, filename, env) ==
  IF filename = "" THEN Ret("EmptyFilename", <<>>, f, <<>>)
  ELSE LET w == write(f, <<>>, env) IN Ret(w.err, <<>>, w.fs, w.log)

Init(f, filename, env) ==
  IF filename = "" THEN Ret("EmptyFilename", <<>>, f, <<>>)
  ELSE IF Stat(f) \in {"file", "dir"}
  THEN Ret("ErrPwFileAlreadyExists", <<>>, f, <<"stat">>)
  ELSE LET w == write(f, <<>>, env) IN Ret(w.err, <<>>, w.fs, <<"stat">> \o w.log)

Get(f, filename, name, env) ==
  IF filename = "" THEN Ret("EmptyFilename", <<>>, f, <<>>)
  ELSE LET r == read(f, env) IN
       IF r.err # NoErr THEN Ret(r.err, <<>>, f, r.log)
       ELSE IF FirstIndex(r.data, name) = 0 THEN Ret("ErrPwNotFound", <<>>, f, r.log)
       ELSE Ret(NoErr, <<r.data[FirstIndex(r.data, name)]>>, f, r.log)

\* List that encrypts what it has read back to the file (mutant).
ListRewrites(f, filename, env) ==
  IF filename = "" THEN Ret("EmptyFilename", <<>>, f, <<>>)
  ELSE LET r == read(f, env) IN
       IF r.err # NoErr THEN Ret(r.err, r.data, f, r.log)
       ELSE LET w == write(f, r.data, env) IN Ret(w.err, r.data, w.fs, r.log \o w.log)

List(f, filename, env) ==
  IF filename = "" THEN Ret("EmptyFilename", <<>>, f, <<>>)
  ELSE LET r == read(f, env) IN Ret(r.err, r.data, f, r.log)

\* The loop of Add, finding nothing (mutant).
AddCollidesNever(data, newEntry) == FALSE

\* The loop of Add: some entry carries the new entry's name.
AddCollides(data, newEntry) == \E i \in 1..Len(data) : data[i].Name = newEntry.Name

\* Add that runs write a second time when the first fails (mutant).
AddRetrying(f, filename, newEntry, env) ==
  IF filename = "" THEN Ret("EmptyFilename", <<>>, f, <<>>)
  ELSE LET r == read(f, env) IN
       IF r.err # NoErr THEN Ret(r.err, <<>>, f, r.log)
       ELSE IF AddCollides(r.data, newEntry)
       THEN Ret("ErrPwAlreadyExists", <<>>, f, r.log)
       ELSE LET w == write(f, Append(r.data, newEntry), env) IN
            IF w.err \in {NoErr, "panic"} THEN Ret(w.err, <<>>, w.fs, r.log \o w.log)
            ELSE LET w2 == write(w.fs, Append(r.data, newEntry), env) IN
                 Ret(w2.err, <<>>, w2.fs, r.log \o w.log \o w2.log)

Add(f, filename, newEntry, env) ==
  IF filename = "" THEN Ret("EmptyFilename", <<>>, f, <<>>)
  ELSE LET r == read(f, env) IN
       IF r.err # NoErr THEN Ret(r.err, <<>>, f, r.log)
       ELSE IF AddCollides(r.data, newEntry)
       THEN Ret("ErrPwAlreadyExists", <<>>, f, r.log)
       ELSE LET w == write(f, Append(r.data, newEntry), env) IN
            Ret(w.err, <<>>, w.fs, r.log \o w.log)

\* The loop of Update, adding the entry when none carries its name (mutant).
UpdateOrAppend(data, newEntry) ==
  IF FirstIndex(data, newEntry.Name) = 0
  THEN [found |-> TRUE, data |-> Append(data, newEntry)]
  ELSE [found |-> TRUE,
        data |-> [data EXCEPT ![FirstIndex(data, newEntry.Name)] = newEntry]]

\* The loop of Update: the first entry with the name is overwritten.
UpdateLoop(data, newEntry) ==
  IF FirstIndex(data, newEntry.Name) = 0
  THEN [found |-> FALSE, data |-> data]
  ELSE [found |-> TRUE,
        data |-> [data EXCEPT ![FirstIndex(data, newEntry.Name)] = newEntry]]

Update(f, filename, newEntry, env) ==
  IF filename = "" THEN Ret("EmptyFilename", <<>>, f, <<>>)
  ELSE LET r == read(f, env) IN
       IF r.err # NoErr THEN Ret(r.err, <<>>, f, r.log)
       ELSE LET u == UpdateLoop(r.data, newEntry) IN
            IF ~u.found THEN Ret("ErrPwNotFound", <<>>, f, r.log)
            ELSE LET w == write(f, u.data, env) IN
                 Ret(w.err, <<>>, w.fs, r.log \o w.log)

\* The loop of Remove, dropping the first match only (mutant).
RemoveFirstOnly(data, name) ==
  [found |-> FirstIndex(data, name) # 0,
   newData |-> IF FirstIndex(data, name) = 0 THEN data
               ELSE SubSeq(data, 1, FirstIndex(data, name) - 1)
                    \o SubSeq(data, FirstIndex(data, name) + 1, Len(data))]

\* The loop of Remove: every entry not named name is kept, in order.
RemoveLoop(data, name) ==
  [found |-> \E i \in 1..Len(data) : data[i].Name = name,
   newData |-> SelectSeq(data, LAMBDA e : e.Name # name)]

Remove(f, filename, name, env) ==
  IF filename = "" THEN Ret("EmptyFilename", <<>>, f, <<>>)
  ELSE LET r == read(f, env) IN
       IF r.err # NoErr THEN Ret(r.err, <<>>, f, r.log)
       ELSE LET u == RemoveLoop(r.data, name) IN
            IF ~u.found THEN Ret("ErrPwNotFound", <<>>, f, r.log)
            ELSE LET w == write(f, u.newData, env) IN
                 Ret(w.err, <<>>, w.fs, r.log \o w.log)

---------------------------------------------------------------------------
\* GeneratePassword.  The charset is a Go string, indexed by byte: "a" and "b"
\* are one byte each, the character U+00E9 is the two bytes "xC3", "xA9".
\* rand lists what cryptorand.Int returns at each call: an index, or -1 for
\* an error of the random source.

\* Largest password length asked of GeneratePassword on its own.
MaxPwLen == 3

\* The calls of cryptorand.Int up to the first that fails.
RandUsed(length, rand) ==
  IF \E k \in 1..length : rand[k] = -1
  THEN CHOOSE k \in 1..length : rand[k] = -1 /\ \A j \in 1..(k - 1) : rand[j] # -1
  ELSE length

\* GeneratePassword that draws before it validates its arguments (mutant).
GeneratePasswordDrawsFirst(length, charset, rand) ==
  IF length <= 0 THEN [err |-> "LengthNotPositive", password |-> <<>>, draws |-> 1]
  ELSE IF Len(charset) = 0 THEN [err |-> "CharsetEmpty", password |-> <<>>, draws |-> 1]
  ELSE IF \E k \in 1..length : rand[k] = -1
  THEN [err |-> "RandErr", password |-> <<>>, draws |-> RandUsed(length, rand)]
  ELSE [err |-> NoErr, password |-> [i \in 1..length |-> charset[rand[i] + 1]],
        draws |-> length]

GeneratePassword(length, charset, rand) ==
  IF length <= 0 THEN [err |-> "LengthNotPositive", password |-> <<>>, draws |-> 0]
  ELSE IF Len(charset) = 0 THEN [err |-> "CharsetEmpty", password |-> <<>>, draws |-> 0]
  ELSE IF \E k \in 1..length : rand[k] = -1
  THEN [err |-> "RandErr", password |-> <<>>, draws |-> RandUsed(length, rand)]
  ELSE [err |-> NoErr, password |-> [i \in 1..length |-> charset[rand[i] + 1]],
        draws |-> length]

\* What cryptorand.Int(cryptorand.Reader, len(charset)) may return over the
\* calls of one invocation; nothing is drawn after the first error.
RandDraws(length, charset) ==
  IF length <= 0 \/ Len(charset) = 0 THEN {<<>>}
  ELSE {r \in [1..length -> -1..(Len(charset) - 1)] :
          \A k \in 1..length : r[k] = -1 => \A j \in (k + 1)..length : r[j] = 0}

\* Arguments of GeneratePassword between calls on the store, and on its own.
GenLengths == {-1, 0, 2}
GenCharsets == {<<>>, <<"a", "b">>, <<"xC3", "xA9">>}
GenLengthsWide == -1..MaxPwLen
GenCharsetsWide == GenCharsets \cup {<<"a", "a", "b">>, <<"a", "xC3", "xA9">>}

NoGen == [length |-> 0, charset |-> <<>>, password |-> <<>>, draws |-> 0]

---------------------------------------------------------------------------
\* The state: the entry at the path, the most recent invocation (what was
\* called, on which entry, and what it returned and ran), and whether the
\* file was created by a successful Init.

VARIABLES fsys, last, byInit, procs

vars == <<fsys, last, byInit, procs>>

\* The processes that may call the package on one path at the same time.
ProcIds == {1, 2}

\* A process that has called nothing yet.
IdleProc ==
  [pc |-> "idle", op |-> "none", entry |-> NoEntry, data |-> <<>>,
   err |-> NoErr, calls |-> 0]

\* What may be at the path before the package is first used.
InitialEntries ==
  {[kind |-> k, content |-> Corrupt, mode |-> 493] : k \in {"none", "dir", "denied"}}
  \cup {[kind |-> "file", content |-> c, mode |-> m] :
          c \in {Marshal(<<>>), JSONNull, NotJSON, Corrupt}, m \in {OwnerRW, 420}}

Boot ==
  /\ fsys \in InitialEntries
  /\ last = [op |-> "none", filename |-> "", entry |-> NoEntry, err |-> NoErr,
             val |-> <<>>, pre |-> fsys, log |-> <<>>, gen |-> NoGen]
  /\ byInit = FALSE
  /\ procs = [p \in ProcIds |-> IdleProc]

\* The records the file holds, when it decrypts and decodes.
Store(f) == IF f.kind = "file" THEN Unmarshal(f.content).data ELSE <<>>

Invoke(op, filename, entry, r) ==
  /\ last' = [op |-> op, filename |-> filename, entry |-> entry, err |-> r.err,
              val |-> r.val, pre |-> fsys, log |-> r.log, gen |-> NoGen]
  /\ fsys' = r.fs
  /\ byInit' = (byInit \/ (op = "Init" /\ r.err = NoErr))
  /\ UNCHANGED procs

EnvsFor(filename, envs) == IF filename = "" THEN {OkEnv} ELSE envs

CallInit ==
  \E filename \in Filenames : \E env \in EnvsFor(filename, InitEnvs) :
    Invoke("Init", filename, NoEntry, Init(fsys, filename, env))

CallGet ==
  \E filename \in Filenames, name \in LookupNames : \E env \in EnvsFor(filename, ReadEnvs) :
    Invoke("Get", filename, PasswordEntry(name, <<>>, <<>>), Get(fsys, filename, name, env))

CallList ==
  \E filename \in Filenames : \E env \in EnvsFor(filename, ReadEnvs) :
    Invoke("List", filename, NoEntry, List(fsys, filename, env))

CallAdd ==
  \E filename \in Filenames, newEntry \in AddInputs : \E env \in EnvsFor(filename, Envs) :
    /\ Len(Store(fsys)) < MaxLen
    /\ Invoke("Add", filename, newEntry, Add(fsys, filename, newEntry, env))

CallUpdate ==
  \E filename \in Filenames, newEntry \in UpdateInputs : \E env \in EnvsFor(filename, Envs) :
    Invoke("Update", filename, newEntry, Update(fsys, filename, newEntry, env))

CallRemove ==
  \E filename \in Filenames, name \in RemoveNames : \E env \in EnvsFor(filename, Envs) :
    Invoke("Remove", filename, PasswordEntry(name, <<>>, <<>>),
           Remove(fsys, filename, name, env))

\* One call of GeneratePassword; it touches nothing of the store.
InvokeGenerate(length, charset, g) ==
  /\ last' = [op |-> "GeneratePassword", filename |-> "", entry |-> NoEntry,
              err |-> g.err, val |-> <<>>, pre |-> fsys, log |-> <<>>,
              gen |-> [length |-> length, charset |-> charset,
                       password |-> g.password, draws |-> g.draws]]
  /\ UNCHANGED <<fsys, byInit, procs>>

CallGeneratePassword ==
  \E length \in GenLengths, charset \in GenCharsets :
    \E rand \in RandDraws(length, charset) :
      InvokeGenerate(length, charset, GeneratePassword(length, charset, rand))

Next ==
  \/ CallInit \/ CallGet \/ CallList \/ CallAdd \/ CallUpdate \/ CallRemove
  \/ CallGeneratePassword

\* Sequential calls of the seven exported functions.
Spec == Boot /\ [][Next]_vars

GenerateWide ==
  \E length \in GenLengthsWide, charset \in GenCharsetsWide :
    \E rand \in RandDraws(length, charset) :
      InvokeGenerate(length, charset, GeneratePassword(length, charset, rand))

\* GeneratePassword alone, over more lengths and charsets.
SpecGen == Boot /\ [][GenerateWide]_vars

---------------------------------------------------------------------------
\* The codec on its own, one round trip a behaviour: write encodes a sequence
\* of entries into the file, then read decodes what the file holds; no
\* delegate fails.

\* Longest sequence of entries encoded.
MaxCodecLen == 2

CodecEntries ==
  {PasswordEntry(n, u, p) : n \in NameInputs, u \in {<<>>, <<"u">>},
                            p \in {<<"p">>, <<"xFF", "p">>}}
CodecInputs == UNION {[1..n -> CodecEntries] : n \in 0..MaxCodecLen}

Encode ==
  \E data \in CodecInputs :
    LET w == write(fsys, data, OkEnv) IN
    /\ last.op = "none"
    /\ last' = [op |-> "write", filename |-> "pw.scrypt", entry |-> NoEntry,
                err |-> w.err, val |-> data, pre |-> fsys, log |-> w.log,
                gen |-> NoGen]
    /\ fsys' = w.fs
    /\ UNCHANGED <<byInit, procs>>

Decode ==
  LET r == read(fsys, OkEnv) IN
  /\ last.op = "write"
  /\ last' = [op |-> "read", filename |-> "pw.scrypt", entry |-> NoEntry,
              err |-> r.err, val |-> r.data, pre |-> fsys, log |-> r.log,
              gen |-> NoGen]
  /\ UNCHANGED <<fsys, byInit, procs>>

SpecCodec == Boot /\ [][Encode \/ Decode]_vars

---------------------------------------------------------------------------
\* Concurrent calls on one path.  Nothing in the package locks the file, so
\* the calls of two processes interleave at the delegates: an exported
\* function first looks at the path (Init) or runs read and its loop (Add,
\* Update, Remove), and later, with what it computed then, runs write.  Each
\* delegate is taken as atomic and successful; failing delegates are the
\* subject of Spec.

\* Calls one process makes.
MaxCalls == 2

ConcAdds == {PasswordEntry(n, <<>>, <<"p">>) : n \in {<<"a">>, <<"b">>, <<"xFF">>, <<"uFFFD">>}}
ConcUpdates == {PasswordEntry(<<"a">>, <<>>, <<"q">>)}
ConcRemoves == {PasswordEntry(<<"a">>, <<>>, <<>>)}

Plan(err, go, data) == [err |-> err, go |-> go, data |-> data]

\* An exported function up to its call of write: the error it returns
\* without writing, or the data it is about to write.
BeforeWrite(op, f, entry, env) ==
  IF op = "Init"
  THEN IF Stat(f) \in {"file", "dir"}
       THEN Plan("ErrPwFileAlreadyExists", FALSE, <<>>)
       ELSE Plan(NoErr, TRUE, <<>>)
  ELSE LET r == read(f, env) IN
       IF r.err # NoErr THEN Plan(r.err, FALSE, <<>>)
       ELSE IF op = "Add"
       THEN IF AddCollides(r.data, entry)
            THEN Plan("ErrPwAlreadyExists", FALSE, <<>>)
            ELSE Plan(NoErr, TRUE, Append(r.data, entry))
       ELSE IF op = "Update"
       THEN IF ~UpdateLoop(r.data, entry).found
            THEN Plan("ErrPwNotFound", FALSE, <<>>)
            ELSE Plan(NoErr, TRUE, UpdateLoop(r.data, entry).data)
       ELSE IF ~RemoveLoop(r.data, entry.Name).found
            THEN Plan("ErrPwNotFound", FALSE, <<>>)
            ELSE Plan(NoErr, TRUE, RemoveLoop(r.data, entry.Name).newData)

\* The call of write that reads the file again and redoes the whole
\* function on what it holds now (mutant).
WriteStepFresh(f, pr, env) ==
  IF pr.op = "Init" THEN Init(f, "pw.scrypt", env)
  ELSE IF pr.op = "Add" THEN Add(f, "pw.scrypt", pr.entry, env)
  ELSE IF pr.op = "Update" THEN Update(f, "pw.scrypt", pr.entry, env)
  ELSE Remove(f, "pw.scrypt", pr.entry.Name, env)

\* The call of write that ends Init, Add, Update and Remove: it encrypts the
\* data computed before, whatever the file holds by now.
WriteStep(f, pr, env) == write(f, pr.data, env)

Begin(p, op, entry) ==
  LET b == BeforeWrite(op, fsys, entry, OkEnv) IN
  /\ procs[p].pc \in {"idle", "done"}
  /\ procs[p].calls < MaxCalls
  /\ procs' = [procs EXCEPT ![p] =
                 [pc |-> IF b.go THEN "write" ELSE "done", op |-> op,
                  entry |-> entry, data |-> b.data, err |-> b.err,
                  calls |-> procs[p].calls + 1]]
  /\ UNCHANGED <<fsys, last, byInit>>

BeginInit(p) == Begin(p, "Init", NoEntry)

BeginAdd(p) ==
  \E newEntry \in ConcAdds :
    /\ Len(Store(fsys)) < MaxLen
    /\ Begin(p, "Add", newEntry)

BeginUpdate(p) == \E newEntry \in ConcUpdates : Begin(p, "Update", newEntry)

BeginRemove(p) == \E e \in ConcRemoves : Begin(p, "Remove", e)

Finish(p) ==
  LET w == WriteStep(fsys, procs[p], OkEnv) IN
  /\ procs[p].pc = "write"
  /\ fsys' = w.fs
  /\ procs' = [procs EXCEPT ![p].pc = "done", ![p].err = w.err]
  /\ last' = [op |-> procs[p].op, filename |-> "pw.scrypt",
              entry |-> procs[p].entry, err |-> w.err, val |-> procs[p].data,
              pre |-> fsys, log |-> w.log, gen |-> NoGen]
  /\ byInit' = (byInit \/ (procs[p].op = "Init" /\ w.err = NoErr))

NextConc ==
  \E p \in ProcIds :
    \/ BeginInit(p) \/ BeginAdd(p) \/ BeginUpdate(p) \/ BeginRemove(p)
    \/ Finish(p)

\* Two processes calling Init, Add, Update and Remove on one path.
SpecConc == Boot /\ [][NextConc]_vars

---------------------------------------------------------------------------
\* ---------------------------------------------------------------------
\* Error values of a failed delegate
\* ---------------------------------------------------------------------

\* What a failing scrypt prints on its standard error.
Diagnostic == "scrypt: Passphrase is incorrect"

\* exec.ExitError.Stderr: filled by Cmd.Output, and only when the Cmd's
\* Stderr field is nil; Cmd.Wait never fills it.  Both read and write set
\* cmd.Stderr = os.Stderr, so the delegate prints to the caller's terminal.
ExitErrorStderr(call, cmdStderr, emitted) ==
  IF call = "Output" /\ cmdStderr = "nil" THEN emitted ELSE ""

\* The parts of the text of a returned error, in order.
ErrorText(err) ==
  IF err = "DecExit"
  THEN <<"unable to execute scrypt dec: ", "exit status 1", "\n",
         ExitErrorStderr("Output", "os.Stderr", Diagnostic)>>
  ELSE IF err = "EncExit"
  THEN <<"unable to wait for scrypt enc: ", "exit status 1", "\n",
         ExitErrorStderr("Wait", "os.Stderr", Diagnostic)>>
  ELSE <<err>>

\* The error wraps the delegate's exit error (%w).
WrapsExitError(err) == err \in {"DecExit", "EncExit"}


\* Vocabulary of the properties

ReadingOps == {"Get", "List", "Add", "Update", "Remove"}
WritingOps == {"Init", "Add", "Update", "Remove"}

\* The most recent invocation ran the step ev.
Ran(ev) == \E i \in 1..Len(last.log) : last.log[i] = ev
\* It ran scrypt dec, or tried to.
DecInvoked == Ran("dec.start") \/ Ran("dec.nostart")
\* It entered write: it encoded the records and ran scrypt enc, or tried to.
WriteEntered == Ran("marshal")

\* The file is one scrypt dec can decrypt to a well-formed document.
WellFormed(f) == f.kind = "file" /\ Unmarshal(f.content).err = NoErr
Names(data) == {data[i].Name : i \in 1..Len(data)}
\* No access for group or others, read and write for the owner.
OwnerOnly(mode) == mode % 64 = 0 /\ mode \div 64 = 6

\* C1: from a store created by a successful Init on, the records in the file
\* never include two with the same name.
C1_UniqueNames ==
  byInit =>
    \A i, j \in 1..Len(Store(fsys)) :
      Store(fsys)[i].Name = Store(fsys)[j].Name => i = j

\* C2: an Add whose entry's name is already in the store changes nothing and
\* does not enter write; it fails, with ErrPwAlreadyExists whenever the
\* decryption delivered the records.
C2_AddExistingName ==
  (/\ last.op = "Add" /\ last.filename # ""
   /\ WellFormed(last.pre)
   /\ last.entry.Name \in Names(Store(last.pre)))
  => /\ fsys = last.pre
     /\ ~WriteEntered
     /\ last.err \in {"ErrPwAlreadyExists", "DecExit", "DecStart"}
     /\ (Ran("dec.exit0") => last.err = "ErrPwAlreadyExists")

C2_Witness ==
  /\ last.op = "Add" /\ last.err = "ErrPwAlreadyExists"
  /\ Len(Store(last.pre)) >= 2
  /\ fsys = last.pre

\* C3: after a successful Add of R the store is the earlier sequence followed
\* by R, and Get of R's name returns R.
C3_AddAppendsThenGet ==
  (last.op = "Add" /\ last.err = NoErr)
  => /\ Store(fsys) = Append(Store(last.pre), last.entry)
     /\ Get(fsys, "pw.scrypt", last.entry.Name, OkEnv).err = NoErr
     /\ Get(fsys, "pw.scrypt", last.entry.Name, OkEnv).val = <<last.entry>>

\* C4: after a successful Update with R' the store has the same length, holds
\* R' at the position of the first record with R' name, and is as before at
\* every other position.
C4_UpdateInPlace ==
  (last.op = "Update" /\ last.err = NoErr)
  => LET S == Store(last.pre)
         i == FirstIndex(S, last.entry.Name)
     IN /\ i # 0
        /\ Len(Store(fsys)) = Len(S)
        /\ \A k \in 1..Len(S) :
             Store(fsys)[k] = IF k = i THEN last.entry ELSE S[k]

\* The number of records among the first i of S not named n.
Rank(S, n, i) == Cardinality({j \in 1..i : S[j].Name # n})

\* C5: after a successful Remove of n the store holds exactly the earlier
\* records not named n, in their earlier order, and Get of n fails with
\* ErrPwNotFound.
C5_RemoveKeepsOthers ==
  (last.op = "Remove" /\ last.err = NoErr)
  => LET S == Store(last.pre)
         n == last.entry.Name
     IN /\ n \in Names(S)
        /\ Len(Store(fsys)) = Rank(S, n, Len(S))
        /\ \A i \in 1..Len(S) :
             S[i].Name # n => Store(fsys)[Rank(S, n, i)] = S[i]
        /\ Get(fsys, "pw.scrypt", n, OkEnv).err = "ErrPwNotFound"

C5_Witness ==
  /\ last.op = "Remove" /\ last.err = NoErr
  /\ Len(Store(last.pre)) = 3
  /\ Store(last.pre)[2].Name = last.entry.Name
  /\ Store(fsys) = <<Store(last.pre)[1], Store(last.pre)[3]>>

\* C6: Get, Update and Remove of a name no record of a well-formed store
\* carries change nothing and do not enter write; they fail, with
\* ErrPwNotFound whenever the decryption delivered the records.
C6_AbsentName ==
  (/\ last.op \in {"Get", "Update", "Remove"} /\ last.filename # ""
   /\ WellFormed(last.pre)
   /\ last.entry.Name \notin Names(Store(last.pre)))
  => /\ fsys = last.pre
     /\ ~WriteEntered
     /\ last.err \in {"ErrPwNotFound", "DecExit", "DecStart"}
     /\ (Ran("dec.exit0") => last.err = "ErrPwNotFound")

C6_Witness ==
  /\ last.op = "Update" /\ last.err = "ErrPwNotFound"
  /\ Len(Store(last.pre)) >= 1
  /\ fsys = last.pre

\* C7: a reading operation on a path where nothing is fails with
\* ErrPwFileNotFound, on a directory with an error that is none of the
\* sentinels; in both cases no delegate is run and the path is left as it was.
\* A delegate is only ever run after the path was examined and found a file.
C7_PathClassifiedFirst ==
  (last.op \in ReadingOps /\ last.filename # "")
  => /\ (last.pre.kind = "none" => last.err = "ErrPwFileNotFound")
     /\ (last.pre.kind = "dir" =>
           last.err \notin {NoErr, "ErrPwFileNotFound", "ErrPwFileAlreadyExists",
                            "ErrPwNotFound", "ErrPwAlreadyExists"})
     /\ (last.pre.kind \in {"none", "dir"} =>
           ~DecInvoked /\ ~WriteEntered /\ fsys = last.pre)
     /\ (DecInvoked \/ WriteEntered => last.log[1] = "stat" /\ last.pre.kind = "file")

C7_Witness ==
  /\ last.op = "Remove" /\ last.filename # ""
  /\ last.pre.kind = "dir"
  /\ last.err = "IsDirectory"

C9_OwnerOnlyAfterWrite ==
  (last.op \in WritingOps /\ last.err = NoErr)
  => fsys.kind = "file" /\ OwnerOnly(fsys.mode)

C9_Witness ==
  /\ last.op = "Add" /\ last.err = NoErr
  /\ last.pre.kind = "file" /\ ~OwnerOnly(last.pre.mode)
  /\ OwnerOnly(fsys.mode)

\* C10: Init, Add, Update and Remove return nil only when the delegate was
\* started, was given the whole encoding, exited 0 and the mode was set, and
\* the file then holds an encoded sequence; when the delegate failed after it
\* took its input, an error is returned.
C10_NoFalseSuccess ==
  last.op \in WritingOps
  => /\ (last.err = NoErr =>
           /\ Ran("enc.start") /\ Ran("enc.stdin") /\ Ran("enc.exit0") /\ Ran("chmod")
           /\ fsys.kind = "file" /\ fsys.content.t = "array")
     /\ (Ran("enc.fail") \/ Ran("enc.waiterr") \/ Ran("chmod.fail") \/ Ran("enc.nostart")
           => last.err \notin {NoErr})

C10_Witness ==
  /\ last.op = "Update"
  /\ Ran("enc.stdin") /\ Ran("enc.fail")
  /\ last.err = "EncExit"

\* C11: when scrypt dec delivers bytes that are not the encoding of an array
\* of records, every reading operation fails with the invalid-JSON error,
\* returns nothing and leaves the file as it was.
C11_InvalidFormat ==
  (/\ last.op \in ReadingOps /\ last.filename # ""
   /\ last.pre.kind = "file" /\ last.pre.content.t # "array"
   /\ Ran("dec.exit0"))
  => /\ last.err = "InvalidJSON"
     /\ ~WriteEntered
     /\ fsys = last.pre

StoreOps == {"Init", "Get", "List", "Add", "Update", "Remove"}

\* C12: a call on the store with the empty filename fails before os.Stat and
\* before any delegate is run, and leaves the path as it was; GeneratePassword
\* with a length that is not positive or with an empty charset fails without
\* a call of the random source.
C12_MisuseBeforeIO ==
  /\ (last.op \in StoreOps /\ last.filename = "" =>
        /\ last.err = "EmptyFilename"
        /\ last.log = <<>>
        /\ fsys = last.pre)
  /\ (/\ last.op = "GeneratePassword"
      /\ (last.gen.length <= 0 \/ Len(last.gen.charset) = 0)
      => /\ last.err \in {"LengthNotPositive", "CharsetEmpty"}
         /\ last.gen.draws = 0
         /\ last.gen.password = <<>>)

C12_Witness ==
  /\ last.op = "GeneratePassword"
  /\ last.gen.length = 2 /\ last.gen.charset = <<>>
  /\ last.err = "CharsetEmpty" /\ last.gen.draws = 0

\* The characters of a Go string, as ranging over it yields them: the bytes
\* "xC3", "xA9" in this order are the one character U+00E9, any of them
\* elsewhere (and "xFF") is a byte that is no character.
RECURSIVE Runes(_)
Runes(s) ==
  IF s = <<>> THEN <<>>
  ELSE IF Len(s) >= 2 /\ s[1] = "xC3" /\ s[2] = "xA9"
  THEN <<"U+00E9">> \o Runes(SubSeq(s, 3, Len(s)))
  ELSE IF s[1] \in {"xC3", "xA9", "xFF"} THEN <<"invalid">> \o Runes(Tail(s))
  ELSE <<s[1]>> \o Runes(Tail(s))

\* C13: a successful GeneratePassword(length, charset) returns a string of
\* exactly length characters, each a character of the charset.
C13_LengthAndAlphabet ==
  (last.op = "GeneratePassword" /\ last.err = NoErr)
  => /\ last.gen.length > 0
     /\ Len(Runes(last.gen.password)) = last.gen.length
     /\ \A i \in 1..Len(Runes(last.gen.password)) :
          \E j \in 1..Len(Runes(last.gen.charset)) :
            Runes(last.gen.password)[i] = Runes(last.gen.charset)[j]

\* C14: a call of Get or List, failing or not, leaves the path as it was and
\* does not enter write; a successful List returns the records of the file
\* in their order there, and of two successful calls of List in a row the
\* second returns what the first returned.
C14_GetListReadOnly ==
  [][/\ (last'.op \in {"Get", "List"} =>
           /\ fsys' = fsys
           /\ last'.pre = fsys
           /\ \A i \in 1..Len(last'.log) :
                last'.log[i] \in {"stat", "dec.start", "dec.nostart", "dec.fail",
                                  "dec.exit0", "unmarshal", "unmarshal.fail"})
     /\ (last'.op = "List" /\ last'.err = NoErr => last'.val = Store(fsys))
     /\ (/\ last.op = "List" /\ last.err = NoErr
         /\ last'.op = "List" /\ last'.err = NoErr
         => last'.val = last.val)]_vars

C14_Witness ==
  /\ last.op = "List" /\ last.err = NoErr
  /\ Len(last.val) = 3
  /\ last.val = Store(fsys)
  /\ fsys = last.pre

\* C15: what read decodes from a file that write has encoded a sequence of
\* entries into is that sequence: the same entries in the same order.
C15_CodecRoundTrip ==
  (last.op = "write" /\ last.err = NoErr)
  => /\ read(fsys, OkEnv).err = NoErr
     /\ read(fsys, OkEnv).data = last.val

\* C16: every path through write returns to the caller (it does not end in a
\* panic), and when the delegate was started its input pipe has been closed
\* and Wait has returned by then.
C16_WriteReleases ==
  WriteEntered
  => /\ last.err # "panic"
     /\ (Ran("enc.start") =>
           /\ Ran("enc.close")
           /\ (Ran("enc.exit0") \/ Ran("enc.fail") \/ Ran("enc.waiterr")))

\* How many steps of the most recent invocation are among evs.
Count(evs) == Cardinality({i \in 1..Len(last.log) : last.log[i] \in evs})

\* C17: one invocation runs scrypt dec at most once and scrypt enc at most
\* once; Add, Update and Remove run scrypt enc only after scrypt dec exited
\* 0, the output decoded and the name was found absent (Add) or present
\* (Update, Remove); os.Chmod is called only right after scrypt enc exited 0.
C17_OrderNoRetry ==
  /\ Count({"dec.start", "dec.nostart"}) <= 1
  /\ Count({"enc.start", "enc.nostart"}) <= 1
  /\ Count({"marshal"}) <= 1
  /\ (last.op \in {"Add", "Update", "Remove"} /\ WriteEntered =>
        /\ Len(last.log) >= 5
        /\ SubSeq(last.log, 1, 5) =
             <<"stat", "dec.start", "dec.exit0", "unmarshal", "marshal">>
        /\ WellFormed(last.pre)
        /\ (last.op = "Add" => last.entry.Name \notin Names(Store(last.pre)))
        /\ (last.op # "Add" => last.entry.Name \in Names(Store(last.pre))))
  /\ \A i \in 1..Len(last.log) :
       last.log[i] \in {"chmod", "chmod.fail"} => i > 1 /\ last.log[i - 1] = "enc.exit0"

C17_Witness ==
  /\ last.op = "Add" /\ last.err = "EncExit"
  /\ Count({"dec.start"}) = 1 /\ Count({"enc.start"}) = 1
  /\ ~Ran("chmod")

\* C19: when scrypt dec or scrypt enc exits with a failure after printing a
\* diagnostic, the error returned wraps the exit error and its text carries
\* that diagnostic, on the read path and on the write path.
C19_DiagnosticCarried ==
  (Ran("dec.fail") \/ Ran("enc.fail"))
  => /\ WrapsExitError(last.err)
     /\ \E i \in 1..Len(ErrorText(last.err)) : ErrorText(last.err)[i] = Diagnostic

\* C18: the package gives no isolation between concurrent calls on one path:
\* a successful write leaves in the file exactly what its call computed at
\* its own earlier read, whatever other calls wrote in between; so two Adds
\* of distinct names can both succeed and leave one record, and an Init can
\* replace a non-empty store by the empty one.
C18_LastWriterWins ==
  (last.op \in {"Init", "Add", "Update", "Remove"} /\ last.err = NoErr)
  => /\ fsys.kind = "file"
     /\ fsys.content = Marshal(last.val)

\* The lost update: both processes made one call, an Add, the names differ,
\* both returned nil, and the file holds one record.
C18_Witness ==
  /\ \A p \in ProcIds : /\ procs[p].pc = "done" /\ procs[p].op = "Add"
                        /\ procs[p].err = NoErr /\ procs[p].calls = 1
  /\ procs[1].entry.Name = <<"a">> /\ procs[2].entry.Name = <<"b">>
  /\ Len(Store(fsys)) = 1

\* Init's write, succeeding, replaced a store that held records.
C18_InitReplacesStore ==
  /\ last.op = "Init" /\ last.err = NoErr
  /\ Len(Store(last.pre)) > 0
  /\ Store(fsys) = <<>>

\* C20: under any interleaving of the read and write steps of concurrent
\* Init, Add, Update and Remove on one path, every sequence of records
\* written to the file has pairwise distinct names.
C20_UniqueUnderInterleaving ==
  (last.op \in {"Init", "Add", "Update", "Remove"} /\ last.err = NoErr)
  => \A i, j \in 1..Len(Store(fsys)) :
       i # j => Store(fsys)[i].Name # Store(fsys)[j].Name

====
